---- MODULE Spec2Model ----
(***************************************************************************)
(* Client-side session lifecycle of the forum client (UserProvider.jsx)    *)
(* together with the useAuth hook's auto-refresh effect (axios.js, second  *)
(* part of the file).                                                      *)
(*                                                                         *)
(* Time is counted in minutes: 60000 ms = 1, 30 * 60 * 1000 ms = 30.       *)
(* expiresIn (seconds in the server's responses) is counted in minutes as  *)
(* well, so "expiresIn <= 60" is E <= 1 and "expiresIn = 900" is E = 15.   *)
(* Every timestamp the program stores (sessionExpiry, lastActivity, the    *)
(* instants the timers are due) is kept as its offset from the current     *)
(* instant, so Date.now() is 0 in every handler and the passing of a       *)
(* minute (Tick) lowers every stored timestamp by one. Timestamps that lie *)
(* further in the past than the program can tell apart are kept at a floor *)
(* (MaxIdle, MaxExpired).                                                  *)
(*                                                                         *)
(* React semantics that the model spells out:                              *)
(*  - a handler (callback, timer, response continuation) runs to its next  *)
(*    await as one step; the state it set is rendered and the effects      *)
(*    whose dependencies changed are committed before the next handler     *)
(*    (action Commit, enabled exactly when dirty is not Clean);            *)
(*  - refreshToken is a useCallback over [isRefreshing]: a caller holds    *)
(*    the closure of the render in which it obtained it, and the closure   *)
(*    tests the isRefreshing of that render (field cap of timers and       *)
(*    requests), while refreshPromiseRef is read live;                     *)
(*  - scheduleTokenRefresh depends on refreshToken, and the initialisation *)
(*    effect on scheduleTokenRefresh, so the effect's cleanup and          *)
(*    initializeAuth run again whenever isRefreshing changes.              *)
(*                                                                         *)
(* The request pipeline (the axios interceptors, retryRequest and the      *)
(* validation of useAuth.login and useAuth.register) is the second         *)
(* specification, ApiSpec: one call at a time, followed from the caller    *)
(* through the interceptors to the network and back. A message is the      *)
(* sequence of its words, so that String.includes is a search for a        *)
(* subsequence; retry delays are counted in seconds (1000 ms = 1).         *)
(***************************************************************************)
EXTENDS Integers, FiniteSets, Sequences, Bags, TLC

\* ---------------------------------------------------------------- bounds
MaxIdle == 31
MaxExpired == 1
MaxInFlight == 3
MaxExpiresIn == 15
MaxPosts == 2
MaxOps == 1
TickStride == 5
MaxRetries == 3
MaxRetryAfter == 5
MaxAnswers == 2

\* ------------------------------------------------------ program constants
RefreshMargin == 1
InactivityTimeout == 30
OAuthDefaultExpiry == 15
ExpiringSoonWindow == 5
DefaultMaxRetries == 3
BaseDelay == 1
MinUsernameLength == 3

\* ------------------------------------------------------------ value sets
NULL == "null"
NoExpiry == -1000
Now == 0
\* E <= 60 s, 60 s < E < 5 min, E > 5 min
ExpiresInValues == {1, 3, MaxExpiresIn}

NoRefreshTimer == [on |-> FALSE, due |-> 0, cap |-> FALSE]
NoActivityTimer == [on |-> FALSE, due |-> 0]
Clean == [ref |-> FALSE, auth |-> FALSE, mount |-> FALSE]
NoIssue == [server |-> FALSE, at |-> 0, expiresIn |-> 0]
NoScn == [active |-> FALSE, at |-> 0, E |-> 0, posts |-> 0]
\* The last handler that ran: op, the expiresIn of its response (E), whether
\* the session was cleared while its request was in flight (stale), whether
\* a refresh was in flight when it was called (busy) and whether it returned
\* the pending promise (joined), the POSTs it accounts for (posts), and
\* whether a user was logged in when it started (had), the error it resolved
\* to, and again: for a logout, whether the handler before it (the commit in
\* between aside) was the logout of a logged-in user; for a commit, whether
\* it commits such a logout.
NoEv == [op |-> "init", ok |-> TRUE, E |-> 0, stale |-> FALSE, busy |-> FALSE, joined |-> FALSE, posts |-> 0, again |-> FALSE, had |-> FALSE, error |-> ""]
Ev(op) == [NoEv EXCEPT !.op = op]

Max(a, b) == IF a >= b THEN a ELSE b
Min(a, b) == IF a <= b THEN a ELSE b

VARIABLES user, token, rtoken, sessionExpiry, lastActivity, isRefreshing, loading, refreshTimeoutRef, activityTimeoutRef, refreshPromiseRef, inflight, dirty, authHook, ops, ev, issued, scn, api, pending, srv, route

vars == <<user, token, rtoken, sessionExpiry, lastActivity, isRefreshing, loading, refreshTimeoutRef, activityTimeoutRef, refreshPromiseRef, inflight, dirty, authHook, ops, ev, issued, scn, api, pending, srv, route>>

\* The current state as one record, so that handlers compose as functions.
Cur == [user |-> user, token |-> token, rtoken |-> rtoken, sessionExpiry |-> sessionExpiry, lastActivity |-> lastActivity, isRefreshing |-> isRefreshing, loading |-> loading, refreshTimeoutRef |-> refreshTimeoutRef, activityTimeoutRef |-> activityTimeoutRef, refreshPromiseRef |-> refreshPromiseRef, inflight |-> inflight, dirty |-> dirty, authHook |-> authHook, ops |-> ops, ev |-> ev, issued |-> issued, scn |-> scn, api |-> api, pending |-> pending, srv |-> srv, route |-> route]

Set(s) ==
  /\ user' = s.user
  /\ token' = s.token
  /\ rtoken' = s.rtoken
  /\ sessionExpiry' = s.sessionExpiry
  /\ lastActivity' = s.lastActivity
  /\ isRefreshing' = s.isRefreshing
  /\ loading' = s.loading
  /\ refreshTimeoutRef' = s.refreshTimeoutRef
  /\ activityTimeoutRef' = s.activityTimeoutRef
  /\ refreshPromiseRef' = s.refreshPromiseRef
  /\ inflight' = s.inflight
  /\ dirty' = s.dirty
  /\ authHook' = s.authHook
  /\ ops' = s.ops
  /\ ev' = s.ev
  /\ issued' = s.issued
  /\ scn' = s.scn
  /\ api' = s.api
  /\ pending' = s.pending
  /\ srv' = s.srv
  /\ route' = s.route

\* ------------------------------------------------- requests in flight
Req(kind, cap) == [kind |-> kind, cap |-> cap, stale |-> FALSE]

RECURSIVE BagSum(_, _)
BagSum(B, S) ==
  IF S = {} THEN 0
  ELSE LET x == CHOOSE y \in S : TRUE IN B[x] + BagSum(B, S \ {x})

\* Marks every request in flight as sent before the session was cleared.
Stale(r) == [r EXCEPT !.stale = TRUE]

MarkStale(B) ==
  [y \in {Stale(x) : x \in DOMAIN B} |-> BagSum(B, {x \in DOMAIN B : Stale(x) = y})]

Send(s, r) == [s EXCEPT !.inflight = @ (+) SetToBag({r})]
Receive(s, r) == [s EXCEPT !.inflight = @ (-) SetToBag({r})]

RefreshInFlight(s) == BagSum(s.inflight, {r \in DOMAIN s.inflight : r.kind = "refresh"})

\* ------------------------------------------------ UserProvider callbacks

\* The timers pending in the runtime (pending) are kept apart from the two
\* refs, which hold the timer that was scheduled last. A timer is what
\* setTimeout was given: its kind, the instant it is due and, for a refresh
\* timer, the isRefreshing of its callback's closure.
RefreshTimer(ref) == [kind |-> "refresh", due |-> ref.due, cap |-> ref.cap]
ActivityTimer(ref) == [kind |-> "activity", due |-> ref.due, cap |-> FALSE]

SetTimeout(s, timer) == [s EXCEPT !.pending = @ (+) SetToBag({timer})]

\* if (ref.current) clearTimeout(ref.current)
ClearTimeout(s, ref, timer) ==
  IF ref.on THEN [s EXCEPT !.pending = @ (-) SetToBag({timer})] ELSE s

ClearRefreshTimeout(s) == ClearTimeout(s, s.refreshTimeoutRef, RefreshTimer(s.refreshTimeoutRef))
ClearActivityTimeout(s) == ClearTimeout(s, s.activityTimeoutRef, ActivityTimer(s.activityTimeoutRef))

Pending(s, kind) == BagSum(s.pending, {timer \in DOMAIN s.pending : timer.kind = kind})

\* scheduleTokenRefresh(delay): the timer callback is the refreshToken of the
\* closure that scheduled it, whose isRefreshing is cap.
ScheduleDelayNoMargin(delay) == delay

ScheduleDelay(delay) == Max(delay - RefreshMargin, 0)

ScheduleTokenRefresh(s, delay, cap) ==
  LET ref == [on |-> TRUE, due |-> Now + ScheduleDelay(delay), cap |-> cap]
  IN [SetTimeout(ClearRefreshTimeout(s), RefreshTimer(ref)) EXCEPT !.refreshTimeoutRef = ref]

ScheduleActivityTimeoutWithoutClear(s) ==
  LET ref == [on |-> TRUE, due |-> Now + InactivityTimeout]
  IN [SetTimeout(s, ActivityTimer(ref)) EXCEPT !.activityTimeoutRef = ref]

ScheduleActivityTimeout(s) ==
  LET ref == [on |-> TRUE, due |-> Now + InactivityTimeout]
  IN [SetTimeout(ClearActivityTimeout(s), ActivityTimer(ref)) EXCEPT !.activityTimeoutRef = ref]

\* updateActivity(): setLastActivity(Date.now()) and nothing else.
UpdateActivityState(s) == [s EXCEPT !.lastActivity = Now]

HandleLogoutKeepsRefreshToken(s) ==
  [ClearActivityTimeout(ClearRefreshTimeout(s)) EXCEPT !.token = NULL, !.user = NULL,
            !.sessionExpiry = NoExpiry, !.issued = NoIssue,
            !.refreshTimeoutRef = NoRefreshTimer,
            !.activityTimeoutRef = NoActivityTimer,
            !.inflight = MarkStale(@)]

\* handleLogout(). A request still in flight is left alone; the model marks
\* it stale, which no code reads.
HandleLogout(s) ==
  [ClearActivityTimeout(ClearRefreshTimeout(s)) EXCEPT !.token = NULL, !.rtoken = NULL, !.user = NULL,
            !.sessionExpiry = NoExpiry, !.issued = NoIssue,
            !.refreshTimeoutRef = NoRefreshTimer,
            !.activityTimeoutRef = NoActivityTimer,
            !.inflight = MarkStale(@)]

\* setSessionExpiry(Date.now() + expiresIn * 1000) after a server response.
SetSessionExpiry(s, E) ==
  [s EXCEPT !.sessionExpiry = Now + E, !.issued = [server |-> TRUE, at |-> Now, expiresIn |-> E]]

\* The continuation of refreshToken's inner function after the POST failed
\* (catch and finally).
RefreshCatch(s) ==
  [HandleLogout(s) EXCEPT !.isRefreshing = FALSE, !.refreshPromiseRef = "none"]

\* refreshToken() called through a closure whose isRefreshing is cap. With
\* no token stored the inner function throws before its first await: catch
\* and finally run inside the call, and line 69 then stores the settled
\* promise in refreshPromiseRef.
RefreshToken(s, cap) ==
  IF cap /\ s.refreshPromiseRef # "none" THEN s
  ELSE IF s.token = NULL
    THEN [RefreshCatch(s) EXCEPT !.refreshPromiseRef = "settled"]
    ELSE [Send(s, Req("refresh", cap)) EXCEPT
            !.isRefreshing = TRUE, !.refreshPromiseRef = "pending",
            !.scn.posts = IF s.scn.active THEN Min(@ + 1, MaxPosts) ELSE @]

\* What a refreshToken() call through such a closure reports. A call that
\* returns the promise held in refreshPromiseRef resolves to that promise's
\* outcome: still open if it is pending, and the failure it settled with if
\* it is the promise of an earlier call that found no token.
RefreshResolves(s, cap) ==
  IF cap /\ s.refreshPromiseRef # "none" THEN s.refreshPromiseRef = "pending"
  ELSE s.token # NULL

RefreshEv(s, cap, op) ==
  [Ev(op) EXCEPT !.busy = RefreshInFlight(s) > 0,
                 !.joined = cap /\ s.refreshPromiseRef # "none",
                 !.ok = RefreshResolves(s, cap),
                 !.error = IF RefreshResolves(s, cap) THEN "" ELSE "Session expired",
                 !.posts = RefreshInFlight(RefreshToken(s, cap)) - RefreshInFlight(s)]

\* refreshToken's inner function after a successful POST (lines 49-58, 64-65).
RefreshThen(s, r, E) ==
  [ScheduleTokenRefresh(SetSessionExpiry([s EXCEPT !.token = "tok", !.user = "alice"], E), E, r.cap)
     EXCEPT !.isRefreshing = FALSE, !.refreshPromiseRef = "none"]

\* login after a successful POST /auth/login (lines 151-165).
LoginThen(s, r, E, rt) ==
  ScheduleActivityTimeout(ScheduleTokenRefresh(SetSessionExpiry(
    [s EXCEPT !.token = "tok", !.rtoken = IF rt THEN "rtok" ELSE @, !.user = "alice"], E), E, r.cap))

\* register after a successful POST /auth/register (lines 182-191).
RegisterThen(s, r, E) ==
  ScheduleActivityTimeout(ScheduleTokenRefresh(SetSessionExpiry(
    [s EXCEPT !.token = "tok", !.user = "alice"], E), E, r.cap))

\* initializeAuth after a successful GET /auth/verify (lines 232-238, 244).
VerifyThen(s, r, E) ==
  ScheduleActivityTimeout(ScheduleTokenRefresh(SetSessionExpiry(
    [s EXCEPT !.user = "alice", !.loading = FALSE], E), E, r.cap))

\* initializeAuth after a failed GET /auth/verify (lines 239-244).
VerifyCatch(s) == [HandleLogout(s) EXCEPT !.loading = FALSE]

\* loginWithTokens(token, refreshToken, userData) (lines 120-140).
LoginWithTokensState(s, rt) ==
  ScheduleActivityTimeout(
    [s EXCEPT !.token = "tok", !.rtoken = IF rt THEN "rtok" ELSE @, !.user = "alice",
              !.sessionExpiry = Now + OAuthDefaultExpiry,
              !.issued = [server |-> FALSE, at |-> Now, expiresIn |-> OAuthDefaultExpiry]])

\* handleActivity: the listener of mousedown, mousemove, keypress, scroll
\* and touchstart.
HandleActivityState(s) == ScheduleActivityTimeout(UpdateActivityState(s))

\* ------------------------------------------------- useAuth (axios.js)
IsSessionExpiringSoon(s) ==
  IF s.sessionExpiry = NoExpiry THEN FALSE
  ELSE s.sessionExpiry < Now + ExpiringSoonWindow

\* The auto-refresh effect: manualRefresh() goes through the context's
\* refreshToken of the committed render.
AutoRefreshEffect(s) ==
  IF IsSessionExpiringSoon(s) /\ s.user # NULL /\ ~s.isRefreshing
  THEN RefreshToken(s, s.isRefreshing)
  ELSE s

\* ------------------------------------------------- render and effects
\* The cleanup of the initialisation effect (lines 250-257).
InitCleanup(s) ==
  [ClearActivityTimeout(ClearRefreshTimeout(s)) EXCEPT !.refreshTimeoutRef = NoRefreshTimer, !.activityTimeoutRef = NoActivityTimer]

\* initializeAuth up to its await (lines 223-230, 244); cap is the
\* isRefreshing of the render whose scheduleTokenRefresh the effect closes over.
InitializeAuth(s, cap) ==
  IF s.token # NULL THEN Send(s, Req("verify", cap))
  ELSE [s EXCEPT !.loading = FALSE]

\* Which effects a handler's state changes make due.
DirtyAfter(pre, post, setExpiry) ==
  [ref |-> pre.isRefreshing # post.isRefreshing,
   auth |-> setExpiry \/ (pre.user = NULL) # (post.user = NULL) \/ pre.sessionExpiry # post.sessionExpiry,
   mount |-> FALSE]

\* One commit: every cleanup first, then the effects, the child's (useAuth)
\* before the provider's.
CommitEffects(s) ==
  LET d == s.dirty
      s0 == [s EXCEPT !.dirty = Clean]
      s1 == IF d.ref THEN InitCleanup(s0) ELSE s0
      s2 == IF s.authHook THEN AutoRefreshEffect(s1) ELSE s1
      s3 == IF d.ref \/ d.mount THEN InitializeAuth(s2, s.isRefreshing) ELSE s2
  IN [s3 EXCEPT !.dirty = DirtyAfter(s1, s3, FALSE)]

\* The program's own state, without the bookkeeping of the model.
Program(s) == <<s.user, s.token, s.rtoken, s.sessionExpiry, s.lastActivity, s.isRefreshing, s.loading, s.refreshTimeoutRef, s.activityTimeoutRef, s.refreshPromiseRef, s.inflight>>

Bounded(s) == BagCardinality(s.inflight) <= MaxInFlight

\* A handler's step: the state it leaves, the effects it makes due, and what
\* it reports.
Step(post, e, setExpiry) ==
  /\ dirty = Clean
  /\ Bounded(post)
  /\ Set([post EXCEPT !.dirty = DirtyAfter(Cur, post, setExpiry),
                      !.ev = [e EXCEPT !.again = (e.op = "logout" /\ ((ev.op = "logout" /\ ev.had) \/ (ev.op = "commit" /\ ev.again))), !.had = (user # NULL)]])

\* A call made by the user of the context: it ends the scenario of login
\* followed by no further action. MaxOps bounds the calls that change the
\* program's state; a call that changes nothing is always possible.
UserStep(post, e, setExpiry) ==
  LET same == Program(post) = Program(Cur)
  IN /\ same \/ ops < MaxOps
     /\ Step([post EXCEPT !.ops = IF same THEN @ ELSE @ + 1, !.scn = NoScn], e, setExpiry)

\* ------------------------------------------ request pipeline (axios.js)
\* A message is the sequence of its words.
MsgAuthRequired == <<"Authentication", "required">>
MsgAccessDenied == <<"Access", "denied">>
MsgNotFound == <<"Resource", "not", "found">>
MsgCsrfExpired == <<"Security", "token", "expired.", "Please", "try", "again.">>
MsgServerError == <<"Server", "error.", "Please", "try", "again", "later.">>
MsgNetworkError == <<"Network", "error.", "Please", "check", "your", "connection.">>
MsgUnexpected == <<"An", "unexpected", "error", "occurred">>
MsgLoginFailed == <<"Login", "failed">>
MsgRegistrationFailed == <<"Registration", "failed">>
MsgSessionExpired == <<"Session", "expired">>
NoMsg == <<>>

\* error.retryAfter: a number, or undefined.
NoRetryAfter == [def |-> FALSE, n |-> 0]
RetryAfter(n) == [def |-> TRUE, n |-> n]

\* `${error.retryAfter}` in a template literal.
Template(v) == IF v.def THEN ToString(v.n) ELSE "undefined"

MsgRateLimit(v) == <<"Rate", "limit", "exceeded.", "Try", "again", "in", Template(v), "seconds.">>

\* String.prototype.includes, on words.
Includes(m, w) ==
  \E i \in 1..(Len(m) - Len(w) + 1) : SubSeq(m, i, i + Len(w) - 1) = w

\* Object.values(errors).flat().join(', ')
RECURSIVE Join(_)
Join(ms) ==
  IF ms = <<>> THEN <<>>
  ELSE IF Len(ms) = 1 THEN ms[1]
  ELSE ms[1] \o <<",">> \o Join(Tail(ms))

\* response.data of a failed exchange: errors (an object of message lists, or
\* absent) and message (a string, or absent).
NoErrors == [has |-> FALSE, list |-> <<>>]
FieldErrors(list) == [has |-> TRUE, list |-> list]
OneError == FieldErrors(<< <<"Email", "is", "invalid">> >>)
TwoErrors == FieldErrors(<< <<"Email", "is", "invalid">>, <<"Password", "too", "short">> >>)
Body(errors, message) == [errors |-> errors, message |-> message]
NoBody == Body(NoErrors, NoMsg)
FullBody == Body(TwoErrors, <<"Bad", "request">>)
BodyValues ==
  {NoBody, FullBody, Body(NoErrors, <<"Bad", "request">>), Body(NoErrors, <<"Input", "validation", "failed">>),
   Body(FieldErrors(<<>>), NoMsg), Body(OneError, NoMsg),
   Body(FieldErrors(<< <<"Email", "validation", "failed">> >>), NoMsg)}
StatusValues == {400, 401, 403, 404, 419, 422, 429, 500, 503}
\* The bodies tried with a status: every one where the body decides the
\* message, with and without content elsewhere.
BodiesOf(status) == IF status \in {400, 422} THEN BodyValues ELSE {NoBody, FullBody}

\* The error object the response interceptor's error handler receives:
\* error.status and error.retryAfter (estatus = 0: undefined), and
\* error.response with its status and data; for the error thrown locally, its
\* message (reason).
NoRaw == [estatus |-> 0, retryAfter |-> NoRetryAfter, hasResponse |-> FALSE, status |-> 0, errors |-> NoErrors, message |-> NoMsg, local |-> FALSE, reason |-> NoMsg, sent |-> NoRetryAfter]

\* The error thrown by the request interceptor when the rate limiter refuses
\* the request (lines 25-30): no response and no config.
MsgTooManyRequests == <<"Too", "many", "requests">>

RateLimitError(n) == [NoRaw EXCEPT !.estatus = 429, !.retryAfter = RetryAfter(n), !.local = TRUE, !.reason = MsgTooManyRequests]

\* The AxiosError of a response with an error status. Whether the library
\* copies response.status to error.status depends on its version (setsStatus);
\* it has no retryAfter property, whatever the server sent (kept in sent).
HttpError(status, body, setsStatus, n) ==
  [NoRaw EXCEPT !.estatus = IF setsStatus THEN status ELSE 0, !.hasResponse = TRUE, !.status = status,
                !.errors = body.errors, !.message = body.message,
                !.sent = IF status = 429 THEN RetryAfter(n) ELSE NoRetryAfter]

\* The AxiosError without a response: connection failure or the 10 s timeout.
NetworkError == NoRaw

\* The response interceptor's error handler (lines 125-239): the message it
\* rejects with, the security events it logs, and its side effects.
ClassifiedLoggedTwice(msg, events) == [msg |-> msg, events |-> events \o events, clears |-> FALSE, regenerates |-> FALSE]

Classified(msg, events) == [msg |-> msg, events |-> events, clears |-> FALSE, regenerates |-> FALSE]

ClassifyError(raw) ==
  IF raw.estatus = 429 THEN Classified(MsgRateLimit(raw.retryAfter), <<"RATE_LIMIT_EXCEEDED">>)
  ELSE IF raw.hasResponse /\ raw.status = 401 THEN [Classified(MsgAuthRequired, <<"UNAUTHORIZED_ACCESS">>) EXCEPT !.clears = TRUE]
  ELSE IF raw.hasResponse /\ raw.status = 403 THEN Classified(MsgAccessDenied, <<"ACCESS_FORBIDDEN">>)
  ELSE IF raw.hasResponse /\ raw.status = 404 THEN Classified(MsgNotFound, <<>>)
  ELSE IF raw.hasResponse /\ raw.status = 419 THEN [Classified(MsgCsrfExpired, <<"CSRF_TOKEN_MISMATCH">>) EXCEPT !.regenerates = TRUE]
  ELSE IF raw.hasResponse /\ raw.status >= 500 THEN Classified(MsgServerError, <<"SERVER_ERROR">>)
  ELSE IF ~raw.hasResponse THEN Classified(MsgNetworkError, <<"NETWORK_ERROR">>)
  ELSE IF raw.status = 422 /\ raw.errors.has THEN Classified(Join(raw.errors.list), <<>>)
  ELSE IF raw.message # NoMsg THEN Classified(raw.message, <<>>)
  ELSE Classified(MsgUnexpected, <<>>)

\* The result of rateLimiter.checkRateLimit.
RateLimitValues == {[allowed |-> TRUE, n |-> 0], [allowed |-> FALSE, n |-> 1], [allowed |-> FALSE, n |-> MaxRetryAfter]}
Methods == {"get", "post", "put", "patch", "delete"}
\* A delay other than the default.
CustomDelay == BaseDelay + 1

\* An error as the caller sees it: its message and the attempt that threw it.
NoError == [msg |-> NoMsg, id |-> 0]
NoResult == [ok |-> FALSE, id |-> 0, msg |-> NoMsg]

\* The arguments of useAuth.login and useAuth.register, each the sequence of
\* its characters.
NoInput == [username |-> <<>>, email |-> <<>>, password |-> <<>>, confirm |-> <<>>]

\* One call followed through the pipeline: who made it (kind), where it is
\* (pc), retryRequest's loop (attempt, lastError), what was counted (op
\* invocations, transmissions, delays taken, CSRF tokens generated), what the
\* last exchange did (rl, wired, headers, metadata, touched, events, raw,
\* thrown) and the page (path, nav).
NoApi == [pc |-> "idle", kind |-> "none", method |-> "get", maxRetries |-> 0, delay |-> 0, attempt |-> 0, invoked |-> 0, sent |-> 0, slept |-> <<>>, lastError |-> NoError, thrown |-> NoError, result |-> NoResult, input |-> NoInput, events |-> <<>>, headers |-> {}, metadata |-> FALSE, touched |-> 0, wired |-> FALSE, rl |-> [allowed |-> TRUE, n |-> 0], raw |-> NoRaw, csrfToken |-> FALSE, regenerated |-> 0, nav |-> FALSE, navigated |-> FALSE, path |-> "other"]

\* csrfProtection.requiresCSRFProtection(config.method)
RequiresCSRFProtection(method) == method \in {"post", "put", "patch", "delete"}

\* The request interceptor past the rate-limit check (lines 32-77), and the
\* transmission.
Transmit(s) ==
  [s EXCEPT !.api.headers = (IF s.token # NULL THEN {"Authorization"} ELSE {})
                            \cup (IF RequiresCSRFProtection(s.api.method) /\ s.api.csrfToken THEN {"X-CSRF-Token"} ELSE {}),
            !.api.metadata = TRUE, !.api.touched = 1, !.api.wired = TRUE,
            !.api.sent = @ + 1, !.api.pc = "wire"]

\* The response interceptor's error handler applied to the error raw.
ResponseError(s, raw) ==
  LET c == ClassifyError(raw)
  IN [s EXCEPT !.api.raw = raw, !.api.events = @ \o c.events,
               !.api.thrown = [msg |-> c.msg, id |-> s.api.attempt],
               !.token = IF c.clears THEN NULL ELSE @,
               !.rtoken = IF c.clears THEN NULL ELSE @,
               !.api.nav = @ \/ (c.clears /\ s.api.path # "login"),
               !.api.csrfToken = @ \/ c.regenerates,
               !.api.regenerated = @ + (IF c.regenerates THEN 1 ELSE 0)]

Finish(s, result) == [s EXCEPT !.api.pc = "done", !.api.result = result]

\* retryRequest's test for errors that are not retried (lines 253-255).
IsTerminal(msg) ==
  \/ Includes(msg, <<"Authentication">>)
  \/ Includes(msg, <<"Access", "denied">>)
  \/ Includes(msg, <<"validation">>)

RetryDelayConstant(delay, attempt) == delay

\* delay * attempt (line 261)
RetryDelay(delay, attempt) == delay * attempt

RetryCatchKeepsFirstError(s, e) ==
  LET first == IF s.api.lastError = NoError THEN e ELSE s.api.lastError
      s1 == [s EXCEPT !.api.lastError = first]
  IN IF IsTerminal(e.msg) THEN Finish(s1, [ok |-> FALSE, id |-> e.id, msg |-> e.msg])
     ELSE IF s.api.attempt < s.api.maxRetries
       THEN [s1 EXCEPT !.api.pc = "backoff", !.api.slept = Append(@, RetryDelay(s.api.delay, s.api.attempt))]
       ELSE Finish(s1, [ok |-> FALSE, id |-> first.id, msg |-> first.msg])

\* retryRequest's catch block for the error e of the current attempt, up to
\* the await of the delay or the throw (lines 249-266).
RetryCatch(s, e) ==
  LET s1 == [s EXCEPT !.api.lastError = e]
  IN IF IsTerminal(e.msg) THEN Finish(s1, [ok |-> FALSE, id |-> e.id, msg |-> e.msg])
     ELSE IF s.api.attempt < s.api.maxRetries
       THEN [s1 EXCEPT !.api.pc = "backoff", !.api.slept = Append(@, RetryDelay(s.api.delay, s.api.attempt))]
       ELSE Finish(s1, [ok |-> FALSE, id |-> s1.api.lastError.id, msg |-> s1.api.lastError.msg])

\* The caller's continuation after the transport rejected: retryRequest, or
\* the catch of the context's refreshToken, login or register (error.response
\* is undefined on the interceptor's error, so the fallback message is used).
Caught(s) ==
  IF s.api.kind = "refresh" THEN Finish(RefreshCatch(s), [ok |-> FALSE, id |-> s.api.thrown.id, msg |-> MsgSessionExpired])
  ELSE IF s.api.kind = "login" THEN Finish(s, [ok |-> FALSE, id |-> s.api.thrown.id, msg |-> MsgLoginFailed])
  ELSE IF s.api.kind = "register" THEN Finish(s, [ok |-> FALSE, id |-> s.api.thrown.id, msg |-> MsgRegistrationFailed])
  ELSE RetryCatch(s, s.api.thrown)

AttemptWithoutRateLimit(s, rl) ==
  Transmit([s EXCEPT !.api.invoked = @ + 1, !.api.rl = rl, !.api.events = <<>>, !.api.raw = NoRaw,
                     !.api.thrown = NoError])

\* One invocation of the request function: the request interceptor with the
\* rate limiter's answer rl. A refusal is thrown inside the interceptor,
\* skips the transmission and is handed to the response interceptor's error
\* handler, the next rejection handler of the chain.
Attempt(s, rl) ==
  LET s1 == [s EXCEPT !.api.invoked = @ + 1, !.api.rl = rl, !.api.events = <<>>, !.api.headers = {},
                      !.api.metadata = FALSE, !.api.touched = 0, !.api.wired = FALSE, !.api.raw = NoRaw,
                      !.api.thrown = NoError]
  IN IF rl.allowed THEN Transmit(s1)
     ELSE Caught(ResponseError(s1, RateLimitError(rl.n)))

\* A new call: the bookkeeping of the previous one is forgotten.
Begin(s, kind, method, maxRetries, delay) ==
  [s EXCEPT !.api = [NoApi EXCEPT !.kind = kind, !.method = method, !.maxRetries = maxRetries, !.delay = delay,
                                  !.attempt = 1, !.csrfToken = s.api.csrfToken, !.path = s.api.path,
                                  !.pc = "call"]]

RetryRequestWithoutLimit(s, rl) == Attempt(s, rl)

\* retryRequest(requestFn, maxRetries, delay) up to its first await.
RetryRequest(s, rl) ==
  IF s.api.attempt <= s.api.maxRetries THEN Attempt(s, rl)
  ELSE Finish(s, NoResult)

\* The timer of the delay fires: the loop's next attempt.
RetryNext(s, rl) == RetryRequest([s EXCEPT !.api.attempt = @ + 1], rl)

\* The response interceptor's success handler (lines 96-124) and the
\* caller's continuation.
ResponseSuccess(s, secHeader) ==
  [s EXCEPT !.api.touched = @ + 1,
            !.api.events = IF secHeader THEN Append(@, "SERVER_SECURITY_EVENT") ELSE @]

Returned(s, E, rt) ==
  LET r == Req(s.api.kind, s.isRefreshing)
      done == Finish(s, [ok |-> TRUE, id |-> s.api.attempt, msg |-> NoMsg])
  IN IF s.api.kind = "login" THEN LoginThen(done, r, E, rt)
     ELSE IF s.api.kind = "register" THEN RegisterThen(done, r, E)
     ELSE IF s.api.kind = "refresh" THEN RefreshThen(done, r, E)
     ELSE done

\* ------------------------------------------------ useAuth login, register
MsgCredentialsRequired == <<"Email", "and", "password", "are", "required">>
MsgAllFieldsRequired == <<"All", "fields", "are", "required">>
MsgInvalidEmail == <<"Please", "enter", "a", "valid", "email", "address">>
MsgPasswordsDiffer == <<"Passwords", "do", "not", "match">>
MsgUsernameShort == <<"Username", "must", "be", "at", "least", "3", "characters", "long">>
MsgPasswordShort == <<"Password", "is", "too", "short">>
MsgPasswordNoUpper == <<"Password", "needs", "an", "uppercase", "letter">>
MsgPasswordNoDigit == <<"Password", "needs", "a", "digit">>

\* Characters stand for their class: "a" lower case, "A" upper case, "1" a
\* digit, "@" and "." themselves.
UsernameValues == {<<>>, <<"a", "a">>, <<"a", "a", "a">>}
EmailValues == {<<>>, <<"a">>, <<"a", "@", "a">>, <<"a", "@", "a", ".", "a">>}
PasswordValues == {<<>>, <<"a", "a">>, <<"a", "A", "1", "a">>, <<"A", "a", "1", "a">>}

MinPasswordLength == 4

\* isValidEmail (utils/auth): local part, one "@", a domain with a dot inside.
IsValidEmail(email) ==
  \E i \in 2..Len(email) :
    /\ email[i] = "@"
    /\ \A j \in 1..Len(email) : email[j] = "@" => j = i
    /\ \E j \in (i + 2)..(Len(email) - 1) : email[j] = "."

\* validatePassword (utils/auth): the violations of the policy, in order.
PasswordErrors(password) ==
  (IF Len(password) < MinPasswordLength THEN << MsgPasswordShort >> ELSE <<>>)
  \o (IF \E i \in 1..Len(password) : password[i] = "A" THEN <<>> ELSE << MsgPasswordNoUpper >>)
  \o (IF \E i \in 1..Len(password) : password[i] = "1" THEN <<>> ELSE << MsgPasswordNoDigit >>)

ValidatePassword(password) ==
  [isValid |-> PasswordErrors(password) = <<>>, errors |-> PasswordErrors(password)]

\* The catch of useAuth.login and useAuth.register: { success: false, error }.
Failure(s, msg) == Finish(s, [ok |-> FALSE, id |-> 0, msg |-> msg])

UsernameAlwaysLongEnough(username) == FALSE

\* username.length < 3 (line 479)
UsernameTooShort(username) == Len(username) < MinUsernameLength

\* !password (line 405)
Missing(text) == text = <<>>

\* The context's login and register: axiosInstance.post, no retryRequest.
ContextLogin(s, rl) == Attempt(s, rl)
ContextRegister(s, rl) == Attempt(s, rl)

\* The keys of the context value (UserProvider.jsx 280-295).
ContextValue ==
  {"user", "login", "loginWithTokens", "register", "logout", "loading", "isAuthenticated", "sessionExpiry",
   "lastActivity", "isRefreshing", "refreshToken", "hasRole", "hasPermission", "updateActivity"}

MsgNotAFunction == <<"userContext.setUser", "is", "not", "a", "function">>

\* useAuth.loginWithTokens(token, refreshToken, userData) (lines 430-454):
\* both items are written, then userContext.setUser is called; calling a key
\* the context value lacks throws a TypeError, which the catch returns.
\* given: whether a refresh token was passed (undefined is stored as text).
UseAuthLoginWithTokens(s, given) ==
  LET s0 == Begin(s, "loginWithTokens", "none", 1, 0)
      s1 == [s0 EXCEPT !.token = "tok", !.rtoken = IF given THEN "rtok" ELSE "undefined"]
  IN IF "setUser" \in ContextValue
     THEN Finish([s1 EXCEPT !.user = "alice"], [ok |-> TRUE, id |-> 0, msg |-> NoMsg])
     ELSE Failure(s1, MsgNotAFunction)

\* The context's refreshToken() up to its first await, called when no refresh
\* is under way: POST /auth/refresh through axiosInstance, no retryRequest.
ContextRefresh(s, rl) ==
  LET s0 == Begin(s, "refresh", "post", 1, 0)
  IN IF s.token = NULL
     THEN Finish([RefreshCatch(s0) EXCEPT !.refreshPromiseRef = "settled"], [ok |-> FALSE, id |-> 0, msg |-> MsgSessionExpired])
     ELSE Attempt([s0 EXCEPT !.isRefreshing = TRUE, !.refreshPromiseRef = "pending"], rl)

\* useAuth.login(email, password) up to its first await (lines 400-413).
UseAuthLogin(s, email, password, rl) ==
  LET s0 == [Begin(s, "login", "post", 1, 0) EXCEPT !.api.input = [NoInput EXCEPT !.email = email, !.password = password]]
  IN IF Missing(email) \/ Missing(password) THEN Failure(s0, MsgCredentialsRequired)
     ELSE IF ~IsValidEmail(email) THEN Failure(s0, MsgInvalidEmail)
     ELSE ContextLogin(s0, rl)

\* useAuth.register(username, email, password, confirmPassword) up to its
\* first await (lines 457-483).
UseAuthRegister(s, username, email, password, confirm, rl) ==
  LET s0 == [Begin(s, "register", "post", 1, 0) EXCEPT !.api.input = [username |-> username, email |-> email, password |-> password, confirm |-> confirm]]
  IN IF Missing(username) \/ Missing(email) \/ Missing(password) \/ Missing(confirm) THEN Failure(s0, MsgAllFieldsRequired)
     ELSE IF ~IsValidEmail(email) THEN Failure(s0, MsgInvalidEmail)
     ELSE IF ~ValidatePassword(password).isValid THEN Failure(s0, Join(ValidatePassword(password).errors))
     ELSE IF password # confirm THEN Failure(s0, MsgPasswordsDiffer)
     ELSE IF UsernameTooShort(username) THEN Failure(s0, MsgUsernameShort)
     ELSE ContextRegister(s0, rl)

\* ------------------------------------------------- the backend (server)
\* A header is the sequence of its characters; a token is one character.
Bearer == <<"B", "e", "a", "r", "e", "r">>
Space == <<" ">>
NoHeader == <<>>
\* Tokens: "g" is signed with the server's key and not expired, and carries
\* userid 7; "x" is expired; "b" has a bad signature.
HeaderValues ==
  {NoHeader,
   Bearer \o Space \o <<"g">>,
   Bearer \o Space \o <<"g">> \o Space \o <<"b">>,
   Bearer \o Space \o <<"b">>,
   Bearer \o Space \o <<"x">>,
   Bearer \o Space \o Space \o <<"g">>,
   Bearer \o Space,
   Bearer \o <<"g">>,
   <<"b", "e", "a", "r", "e", "r">> \o Space \o <<"g">>,
   <<"B", "a", "s", "i", "c">> \o Space \o <<"g">>}

\* String.prototype.startsWith
StartsWith(text, prefix) ==
  Len(text) >= Len(prefix) /\ SubSeq(text, 1, Len(prefix)) = prefix

\* String.prototype.split(" ")
RECURSIVE Split(_)
Split(text) ==
  IF \A i \in 1..Len(text) : text[i] # " " THEN << text >>
  ELSE LET i == CHOOSE j \in 1..Len(text) : text[j] = " " /\ \A k \in 1..(j - 1) : text[k] # " "
       IN << SubSeq(text, 1, i - 1) >> \o Split(SubSeq(text, i + 1, Len(text)))

\* jwt.verify(token, JWT_SECRET_KEY): the payload, or an exception.
JwtVerify(jwtToken) ==
  IF jwtToken = <<"g">> THEN [ok |-> TRUE, userid |-> 7] ELSE [ok |-> FALSE, userid |-> 0]

NoLoggedInUser == [set |-> FALSE, id |-> 0]

\* One request on its way through the server: where it is (pc), what it is
\* (method, header, the body's questionId and answerText), what the
\* middleware attached (loggedInUser), the times next() was called, the
\* response's status (0: none yet), and the rows of the answers table.
NoSrv == [pc |-> "idle", method |-> "GET", header |-> NoHeader, questionId |-> FALSE, answerText |-> FALSE, loggedInUser |-> NoLoggedInUser, nexts |-> 0, status |-> 0, answers |-> 0]

Respond(v, status) == [v EXCEPT !.pc = "responded", !.status = status]

VerifyUserTokenAlwaysNext(v, then) == [v EXCEPT !.nexts = @ + 1, !.pc = then]

\* verifyUserToken(req, res, next); then is where next() leads.
VerifyUserToken(v, then) ==
  IF v.header = NoHeader \/ ~StartsWith(v.header, Bearer \o Space) THEN Respond(v, 401)
  ELSE LET decodedToken == JwtVerify(Split(v.header)[2])
       IN IF decodedToken.ok
          THEN [v EXCEPT !.loggedInUser = [set |-> TRUE, id |-> decodedToken.userid], !.nexts = @ + 1, !.pc = then]
          ELSE Respond(v, 401)

\* The answer router: GET /answer/:questionId, POST /answer.
AnswerRoutes(v) ==
  IF v.method = "GET" THEN [v EXCEPT !.pc = "getAnswersByQuestion"]
  ELSE VerifyUserToken(v, "createAnswer")

\* createAnswer up to its await; req.loggedInUser undefined is a TypeError,
\* which Express answers with 500.
CreateAnswer(v) ==
  IF ~v.loggedInUser.set THEN Respond(v, 500)
  ELSE IF ~v.questionId \/ ~v.answerText THEN Respond(v, 400)
  ELSE [v EXCEPT !.pc = "insert"]

\* ------------------------------------------- route guards (ProtectedRoute)
\* The user object of the context: null, or a role and permissions.
NoUser == [set |-> FALSE, role |-> "none", permissions |-> {}]
UserValues ==
  {NoUser} \cup [set : {TRUE}, role : {"admin", "moderator", "user"},
                 permissions : {{}, {"moderate_content"}, {"premium_access"}, {"moderate_content", "premium_access"}}]

\* ProtectedRoute's props with their defaults (lines 677-686).
DefaultProps == [requireAuth |-> TRUE, requiredRoles |-> <<>>, requiredPermissions |-> <<>>, fallbackPath |-> "/login", showFallback |-> TRUE, loadingComponent |-> FALSE, unauthorizedComponent |-> FALSE]

RolesValues == {<<>>, <<"admin">>, <<"user">>, <<"admin", "moderator">>}
PermissionsValues == {<<>>, <<"moderate_content">>, <<"premium_access", "moderate_content">>}
PropsValues ==
  [requireAuth : BOOLEAN, requiredRoles : RolesValues, requiredPermissions : PermissionsValues, fallbackPath : {"/login"},
   showFallback : BOOLEAN, loadingComponent : BOOLEAN, unauthorizedComponent : BOOLEAN]

\* The context a route is rendered in, the wrapper and the props given to
\* ProtectedRoute, and what was rendered (out).
NoRoute == [loading |-> TRUE, user |-> NoUser, wrapper |-> "none", props |-> DefaultProps, out |-> "none"]

HasRoleAlways(u, role) == TRUE

\* hasRole: user?.role === role
HasRole(u, role) == u.set /\ u.role = role

\* hasPermission: user?.permissions?.includes(permission) || false
HasPermission(u, permission) == u.set /\ permission \in u.permissions

\* Array.prototype.some over hasRole, hasPermission
SomeRole(u, roles) == \E i \in 1..Len(roles) : HasRole(u, roles[i])
SomePermission(u, permissions) == \E i \in 1..Len(permissions) : HasPermission(u, permissions[i])

\* ProtectedRoute (lines 677-784): what it returns.
ProtectedRoute(v, props) ==
  IF v.loading THEN (IF props.loadingComponent THEN "loadingComponent" ELSE "spinner")
  ELSE IF props.requireAuth /\ ~v.user.set THEN (IF props.showFallback THEN "navigate" ELSE "null")
  ELSE IF Len(props.requiredRoles) > 0 /\ ~SomeRole(v.user, props.requiredRoles)
    THEN (IF props.unauthorizedComponent THEN "unauthorizedComponent"
          ELSE IF props.showFallback THEN "accessDenied" ELSE "null")
  ELSE IF Len(props.requiredPermissions) > 0 /\ ~SomePermission(v.user, props.requiredPermissions)
    THEN (IF props.unauthorizedComponent THEN "unauthorizedComponent"
          ELSE IF props.showFallback THEN "insufficientPermissions" ELSE "null")
  ELSE "children"

\* The wrappers spread the caller's props first and set their own after.
AdminProps(props) == [props EXCEPT !.requiredRoles = <<"admin", "superadmin">>, !.fallbackPath = "/admin/login"]
ModeratorProps(props) == [props EXCEPT !.requiredRoles = <<"admin", "moderator">>, !.requiredPermissions = <<"moderate_content">>]
PremiumProps(props) == [props EXCEPT !.requiredPermissions = <<"premium_access">>]

Rendered(v, wrapper, props) == [v EXCEPT !.wrapper = wrapper, !.props = props, !.out = ProtectedRoute(v, props)]

\* ------------------------------------------------------------ the machine
Init ==
  /\ user = NULL
  /\ \E rt \in BOOLEAN :
       \/ token = NULL /\ rtoken = NULL
       \/ token = "tok" /\ rtoken = IF rt THEN "rtok" ELSE NULL
  /\ sessionExpiry = NoExpiry
  /\ lastActivity = 0
  /\ isRefreshing = FALSE
  /\ loading = TRUE
  /\ refreshTimeoutRef = NoRefreshTimer
  /\ activityTimeoutRef = NoActivityTimer
  /\ refreshPromiseRef = "none"
  /\ inflight = EmptyBag
  /\ dirty = [Clean EXCEPT !.mount = TRUE]
  /\ authHook = TRUE
  /\ ops = 0
  /\ ev = NoEv
  /\ issued = NoIssue
  /\ scn = NoScn
  /\ api = NoApi
  /\ pending = EmptyBag
  /\ srv = NoSrv
  /\ route = NoRoute

\* The scenario "login with expiresIn = E, then no further action": it
\* starts when the login response is the only one outstanding, and it lasts
\* while the server keeps answering with the same E.
ScnStart(s, E) ==
  [s EXCEPT !.scn = IF E > RefreshMargin /\ s.inflight = EmptyBag
                    THEN [active |-> TRUE, at |-> Now, E |-> E, posts |-> 0]
                    ELSE NoScn]

ScnKeep(s, E) ==
  IF s.scn.active /\ s.scn.E # E THEN [s EXCEPT !.scn = NoScn] ELSE s

Login ==
  /\ dirty = Clean
  /\ UserStep(Send(Cur, Req("login", isRefreshing)), Ev("loginCall"), FALSE)

LoginSuccess ==
  \E r \in DOMAIN inflight, E \in ExpiresInValues, rt \in BOOLEAN :
    /\ r.kind = "login"
    /\ Step(ScnStart(LoginThen(Receive(Cur, r), r, E, rt), E),
            [Ev("login") EXCEPT !.E = E, !.stale = r.stale], TRUE)

LoginFailure ==
  \E r \in DOMAIN inflight :
    /\ r.kind = "login"
    /\ Step(Receive(Cur, r), [Ev("loginFail") EXCEPT !.ok = FALSE, !.stale = r.stale], FALSE)

Register ==
  /\ dirty = Clean
  /\ UserStep(Send(Cur, Req("register", isRefreshing)), Ev("registerCall"), FALSE)

RegisterSuccess ==
  \E r \in DOMAIN inflight, E \in ExpiresInValues :
    /\ r.kind = "register"
    /\ Step(ScnKeep(RegisterThen(Receive(Cur, r), r, E), E),
            [Ev("register") EXCEPT !.E = E, !.stale = r.stale], TRUE)

RegisterFailure ==
  \E r \in DOMAIN inflight :
    /\ r.kind = "register"
    /\ Step(Receive(Cur, r), [Ev("registerFail") EXCEPT !.ok = FALSE, !.stale = r.stale], FALSE)

LoginWithTokens ==
  \E rt \in BOOLEAN :
    /\ dirty = Clean
    /\ UserStep(LoginWithTokensState(Cur, rt), Ev("loginWithTokens"), TRUE)

Logout ==
  /\ dirty = Clean
  /\ UserStep(HandleLogout(Cur), Ev("logout"), FALSE)

\* The context's refreshToken (manualRefresh), obtained from the last render.
ManualRefresh ==
  /\ dirty = Clean
  /\ UserStep(RefreshToken(Cur, isRefreshing), RefreshEv(Cur, isRefreshing, "refreshCall"), FALSE)

\* The refresh timer's callback: the refreshToken of the scheduling closure.
\* A pending timer fires: it leaves the runtime, and a ref that holds it
\* holds a timer that is no longer pending.
Fired(s, timer) ==
  [s EXCEPT !.pending = @ (-) SetToBag({timer}),
            !.refreshTimeoutRef = IF @.on /\ RefreshTimer(@) = timer THEN NoRefreshTimer ELSE @,
            !.activityTimeoutRef = IF @.on /\ ActivityTimer(@) = timer THEN NoActivityTimer ELSE @]

RefreshTimerFire ==
  \E timer \in DOMAIN pending :
    /\ timer.kind = "refresh"
    /\ timer.due <= Now
    /\ LET s == Fired(Cur, timer)
       IN Step(RefreshToken(s, timer.cap), RefreshEv(s, timer.cap, "refreshCall"), FALSE)

RefreshSuccess ==
  \E r \in DOMAIN inflight, E \in ExpiresInValues :
    /\ r.kind = "refresh"
    /\ Step(ScnKeep(RefreshThen(Receive(Cur, r), r, E), E),
            [Ev("refresh") EXCEPT !.E = E, !.stale = r.stale, !.posts = 1], TRUE)

RefreshFailure ==
  \E r \in DOMAIN inflight :
    /\ r.kind = "refresh"
    /\ LET s == RefreshCatch(Receive(Cur, r))
       IN Step(s, [Ev("refreshFail") EXCEPT !.ok = FALSE, !.stale = r.stale, !.error = "Session expired",
                      !.posts = 1 + RefreshInFlight(s) - RefreshInFlight(Receive(Cur, r))], FALSE)

VerifySuccess ==
  \E r \in DOMAIN inflight, E \in ExpiresInValues :
    /\ r.kind = "verify"
    /\ Step(ScnKeep(VerifyThen(Receive(Cur, r), r, E), E),
            [Ev("verify") EXCEPT !.E = E, !.stale = r.stale], TRUE)

VerifyFailure ==
  \E r \in DOMAIN inflight :
    /\ r.kind = "verify"
    /\ Step(VerifyCatch(Receive(Cur, r)), [Ev("verifyFail") EXCEPT !.ok = FALSE, !.stale = r.stale], FALSE)

\* A user-interaction event on the document.
HandleActivity ==
  /\ dirty = Clean
  /\ UserStep(HandleActivityState(Cur), Ev("activity"), FALSE)

\* The context's updateActivity().
UpdateActivity ==
  /\ dirty = Clean
  /\ UserStep(UpdateActivityState(Cur), Ev("updateActivity"), FALSE)

\* The inactivity timer's callback, handleSessionTimeout: handleLogout and
\* the alert.
HandleSessionTimeout ==
  \E timer \in DOMAIN pending :
    /\ timer.kind = "activity"
    /\ timer.due <= Now
    /\ Step(HandleLogout(Fired(Cur, timer)), Ev("sessionTimeout"), FALSE)

\* React commits the render: the effects whose dependencies changed run.
Commit ==
  /\ dirty # Clean
  /\ LET s == CommitEffects(Cur)
         s1 == IF dirty.ref THEN InitCleanup(Cur) ELSE Cur
         auto == authHook /\ IsSessionExpiringSoon(s1) /\ user # NULL /\ ~isRefreshing
     IN /\ Bounded(s)
        /\ Set([s EXCEPT !.ev = [IF auto THEN RefreshEv(s1, isRefreshing, "autoRefresh") ELSE [Ev("commit") EXCEPT !.again = (ev.op = "logout" /\ ev.had)] EXCEPT !.had = (user # NULL)]])

\* Time passes, up to the next instant at which a timer is due and by at
\* most TickStride minutes: every stored timestamp moves that far into the
\* past. Timers fire on time, and a request is answered or times out (after
\* 10 s) within the minute in which it was sent.
Earlier(ts, d, floor) == Max(ts - d, 0 - floor)

Least(S) == CHOOSE x \in S : \A y \in S : x <= y

NextDue(s) ==
  Min(Least({TickStride} \cup {timer.due : timer \in DOMAIN s.pending}),
      IF s.scn.active /\ s.scn.at + s.scn.E - RefreshMargin > Now THEN s.scn.at + s.scn.E - RefreshMargin ELSE TickStride)

\* Every pending timer is due d earlier.
RECURSIVE Sooner(_, _)
Sooner(B, d) ==
  IF B = EmptyBag THEN EmptyBag
  ELSE LET timer == CHOOSE x \in DOMAIN B : TRUE
       IN Sooner(B (-) SetToBag({timer}), d) (+) SetToBag({[timer EXCEPT !.due = @ - d]})

TickState(s, d) ==
  [s EXCEPT !.sessionExpiry = IF @ = NoExpiry THEN @ ELSE Earlier(@, d, MaxExpired),
            !.lastActivity = Earlier(@, d, MaxIdle),
            !.refreshTimeoutRef = IF @.on THEN [@ EXCEPT !.due = @ - d] ELSE @,
            !.activityTimeoutRef = IF @.on THEN [@ EXCEPT !.due = @ - d] ELSE @,
            !.pending = Sooner(@, d),
            !.issued = IF @ = NoIssue THEN @ ELSE [@ EXCEPT !.at = Earlier(@, d, MaxExpired + s.issued.expiresIn)],
            !.scn = IF @.active /\ Now <= @.at - d + @.E - RefreshMargin THEN [@ EXCEPT !.at = @ - d] ELSE NoScn,
            !.ev = Ev("tick")]

Tick ==
  /\ dirty = Clean
  /\ NextDue(Cur) > Now
  /\ inflight = EmptyBag
  /\ Set(TickState(Cur, Min(TickStride, NextDue(Cur))))

Next ==
  \/ Login \/ LoginSuccess \/ LoginFailure
  \/ Register \/ RegisterSuccess \/ RegisterFailure
  \/ LoginWithTokens \/ Logout \/ ManualRefresh
  \/ RefreshTimerFire \/ RefreshSuccess \/ RefreshFailure
  \/ VerifySuccess \/ VerifyFailure
  \/ HandleActivity \/ UpdateActivity \/ HandleSessionTimeout
  \/ Commit \/ Tick

Spec == Init /\ [][Next]_vars

\* ------------------------------------------- the request pipeline's machine
\* The page before any call: nobody logged in, or a session established by a
\* login whose response carried expiresIn = E; rendering is settled.
SignedOut ==
  [user |-> NULL, token |-> NULL, rtoken |-> NULL, sessionExpiry |-> NoExpiry, lastActivity |-> 0, isRefreshing |-> FALSE, loading |-> FALSE, refreshTimeoutRef |-> NoRefreshTimer, activityTimeoutRef |-> NoActivityTimer, refreshPromiseRef |-> "none", inflight |-> EmptyBag, dirty |-> Clean, authHook |-> TRUE, ops |-> 0, ev |-> NoEv, issued |-> NoIssue, scn |-> NoScn, api |-> NoApi, pending |-> EmptyBag, srv |-> NoSrv, route |-> NoRoute]

SignedIn(E, rt) == LoginThen(SignedOut, Req("login", FALSE), E, rt)

Paths == {"login", "other"}

Start(s) ==
  /\ user = s.user
  /\ token = s.token
  /\ rtoken = s.rtoken
  /\ sessionExpiry = s.sessionExpiry
  /\ lastActivity = s.lastActivity
  /\ isRefreshing = s.isRefreshing
  /\ loading = s.loading
  /\ refreshTimeoutRef = s.refreshTimeoutRef
  /\ activityTimeoutRef = s.activityTimeoutRef
  /\ refreshPromiseRef = s.refreshPromiseRef
  /\ inflight = s.inflight
  /\ dirty = s.dirty
  /\ authHook = s.authHook
  /\ ops = s.ops
  /\ ev = s.ev
  /\ issued = s.issued
  /\ scn = s.scn
  /\ api = s.api
  /\ pending = s.pending
  /\ srv = s.srv
  /\ route = s.route

ApiInit ==
  \E path \in Paths, csrfToken \in BOOLEAN :
    \E s \in {SignedOut, SignedIn(MaxExpiresIn, TRUE)} :
      Start([s EXCEPT !.api.path = path, !.api.csrfToken = csrfToken])

\* The page has made no call yet: one call is followed to its end.
Idle == api.pc = "idle"

\* apiGet, apiPost, apiPut, apiPatch, apiDelete.
ApiCall ==
  /\ Idle
  /\ \E method \in Methods, rl \in RateLimitValues :
       Set(RetryRequest(Begin(Cur, "api", method, DefaultMaxRetries, BaseDelay), rl))

\* retryRequest(requestFn, maxRetries, delay) with the caller's own limits.
RetryRequestCall ==
  /\ Idle
  /\ \E method \in {"get", "post"}, maxRetries \in 0..MaxRetries, rl \in RateLimitValues :
       Set(RetryRequest(Begin(Cur, "retry", method, maxRetries, CustomDelay), rl))

AuthLogin ==
  /\ Idle
  /\ \E email \in EmailValues, password \in PasswordValues, rl \in RateLimitValues :
       Set(UseAuthLogin(Cur, email, password, rl))

AuthRegister ==
  /\ Idle
  /\ \E username \in UsernameValues, email \in EmailValues, password \in PasswordValues, confirm \in PasswordValues, rl \in RateLimitValues :
       Set(UseAuthRegister(Cur, username, email, password, confirm, rl))

AuthLoginWithTokens ==
  /\ Idle
  /\ \E given \in BOOLEAN : Set(UseAuthLoginWithTokens(Cur, given))

Refresh ==
  /\ Idle
  /\ \E rl \in RateLimitValues : Set(ContextRefresh(Cur, rl))

RespondSuccess ==
  /\ api.pc = "wire"
  /\ \E secHeader \in BOOLEAN, E \in ExpiresInValues, rt \in BOOLEAN :
       Set(Returned(ResponseSuccess(Cur, secHeader), E, rt))

RespondError ==
  /\ api.pc = "wire"
  /\ \E status \in StatusValues, setsStatus \in BOOLEAN, n \in {1, MaxRetryAfter} :
       \E body \in BodiesOf(status) :
         Set(Caught(ResponseError(Cur, HttpError(status, body, setsStatus, n))))

\* No response: the connection failed or the 10 s deadline passed.
RespondNetworkError ==
  /\ api.pc = "wire"
  /\ Set(Caught(ResponseError(Cur, NetworkError)))

RetryTimer ==
  /\ api.pc = "backoff"
  /\ \E rl \in RateLimitValues : Set(RetryNext(Cur, rl))

\* window.location.href = '/login' takes effect: the page is loaded anew,
\* with what localStorage holds.
PageLoad(s) ==
  [s EXCEPT !.user = NULL, !.sessionExpiry = NoExpiry, !.issued = NoIssue,
            !.refreshTimeoutRef = NoRefreshTimer, !.activityTimeoutRef = NoActivityTimer,
            !.pending = EmptyBag,
            !.api.nav = FALSE, !.api.navigated = TRUE, !.api.path = "login"]

Navigate ==
  /\ api.nav
  /\ Set(PageLoad(Cur))

ApiNext ==
  \/ ApiCall
  \/ RetryRequestCall
  \/ AuthLogin
  \/ AuthRegister
  \/ AuthLoginWithTokens
  \/ Refresh
  \/ RespondSuccess
  \/ RespondError
  \/ RespondNetworkError
  \/ RetryTimer
  \/ Navigate

ApiSpec == ApiInit /\ [][ApiNext]_vars

\* ------------------------------------------------- the backend's machine
ServerInit == Start(SignedOut)

Serve(v) == Set([Cur EXCEPT !.srv = v])

\* A request for /api/answer arrives: app.use("/api", verifyUserToken,
\* answerRoutes).
Request ==
  /\ srv.pc \in {"idle", "responded"}
  /\ \E method \in {"GET", "POST"}, header \in HeaderValues, questionId \in BOOLEAN, answerText \in BOOLEAN :
       Serve([NoSrv EXCEPT !.pc = "verifyUserToken", !.method = method, !.header = header,
                           !.questionId = questionId, !.answerText = answerText, !.answers = srv.answers])

AppMiddleware ==
  /\ srv.pc = "verifyUserToken"
  /\ Serve(VerifyUserToken(srv, "answerRoutes"))

Route ==
  /\ srv.pc = "answerRoutes"
  /\ Serve(AnswerRoutes(srv))

CreateAnswerStart ==
  /\ srv.pc = "createAnswer"
  /\ Serve(CreateAnswer(srv))

\* db.query(INSERT ...) resolves or rejects.
InsertDone ==
  /\ srv.pc = "insert"
  /\ srv.answers < MaxAnswers
  /\ Serve([Respond(srv, 201) EXCEPT !.answers = @ + 1])

InsertFailed ==
  /\ srv.pc = "insert"
  /\ Serve(Respond(srv, 500))

\* getAnswersByQuestion: the rows, none found, or a database error.
GetAnswersDone ==
  /\ srv.pc = "getAnswersByQuestion"
  /\ \E failed \in BOOLEAN :
       Serve(Respond(srv, IF failed THEN 500 ELSE IF srv.answers = 0 THEN 404 ELSE 200))

ServerNext ==
  \/ Request
  \/ AppMiddleware
  \/ Route
  \/ CreateAnswerStart
  \/ InsertDone
  \/ InsertFailed
  \/ GetAnswersDone

ServerSpec == ServerInit /\ [][ServerNext]_vars

\* ------------------------------------------------- the route guards' machine
RouteInit ==
  \E loadingNow \in BOOLEAN, u \in UserValues :
    Start([SignedOut EXCEPT !.route = [NoRoute EXCEPT !.loading = loadingNow, !.user = u]])

Show(v) == Set([Cur EXCEPT !.route = v])

RenderProtectedRoute ==
  /\ route.out = "none"
  /\ \E props \in PropsValues : Show(Rendered(route, "ProtectedRoute", props))

RenderAdminRoute ==
  /\ route.out = "none"
  /\ \E props \in PropsValues : Show(Rendered(route, "AdminRoute", AdminProps(props)))

RenderModeratorRoute ==
  /\ route.out = "none"
  /\ \E props \in PropsValues : Show(Rendered(route, "ModeratorRoute", ModeratorProps(props)))

RenderPremiumRoute ==
  /\ route.out = "none"
  /\ \E props \in PropsValues : Show(Rendered(route, "PremiumRoute", PremiumProps(props)))

\* PublicRoute: requireAuth defaults to false.
RenderPublicRoute ==
  /\ route.out = "none"
  /\ \E props \in PropsValues, given \in BOOLEAN :
       Show(Rendered(route, "PublicRoute", [props EXCEPT !.requireAuth = IF given THEN @ ELSE FALSE]))

\* The route is left: nothing of it is rendered any more.
Unmount ==
  /\ route.out # "none"
  /\ Show([route EXCEPT !.wrapper = "none", !.props = DefaultProps, !.out = "none"])

\* The context finishes loading (UserProvider's setLoading(false)).
Loaded ==
  /\ route.loading
  /\ route.out = "none"
  /\ Show([route EXCEPT !.loading = FALSE])

RouteNext ==
  \/ RenderProtectedRoute
  \/ RenderAdminRoute
  \/ RenderModeratorRoute
  \/ RenderPremiumRoute
  \/ RenderPublicRoute
  \/ Unmount
  \/ Loaded

RouteSpec == RouteInit /\ [][RouteNext]_vars

\* ------------------------------------------------------------- properties
SuccessOps == {"login", "register", "verify", "refresh"}

LoggedOut ==
  /\ user = NULL
  /\ sessionExpiry = NoExpiry
  /\ token = NULL
  /\ rtoken = NULL
  /\ ~refreshTimeoutRef.on
  /\ ~activityTimeoutRef.on

\* C1: while a refreshToken() call is in flight, every further call returns
\* the pending promise and issues no POST of its own, so at most one
\* POST /auth/refresh is outstanding.
C1_SingleFlight ==
  /\ (ev.op \in {"refreshCall", "autoRefresh"} /\ ev.busy) => (ev.joined /\ ev.posts = 0)
  /\ RefreshInFlight(Cur) <= 1

\* C2: the successful response of a login, register, verify or refresh
\* request that was in flight when the session was cleared changes neither
\* the user, the stored tokens, sessionExpiry nor the timers.
C2_StaleResponseIgnored ==
  [][(ev'.op \in SuccessOps /\ ev'.stale) =>
       UNCHANGED <<user, token, rtoken, sessionExpiry, refreshTimeoutRef, activityTimeoutRef>>]_vars

\* C3: a refreshToken() call that fails, because the POST failed or because
\* no token was stored, accounts for at most one POST, leaves the client
\* logged out with both tokens removed and both timers cancelled, and
\* resolves to the error 'Session expired'. (Violated by the call that is
\* handed the settled promise of an earlier call that found no token.)
C3_RefreshFailureLogsOut ==
  (ev.op \in {"refreshFail", "refreshCall", "autoRefresh"} /\ ~ev.ok) =>
    (LoggedOut /\ ev.posts <= 1 /\ ev.error = "Session expired" /\ ~isRefreshing)

\* C4: after logout() the user and sessionExpiry are null, both tokens are
\* absent and no timer is pending, whatever the state it was called in; a
\* further logout() leaves the program's state exactly as it is.
C4_LogoutIdempotent ==
  ev.op = "logout" => (LoggedOut /\ Program(HandleLogout(Cur)) = Program(Cur))

C4_Witness ==
  ev.op = "logout" /\ ev.again /\ LoggedOut

\* C5: when login, loginWithTokens, register, the startup verification or
\* logout has completed, the refresh timer is pending exactly if the
\* inactivity timer is.
C5_TimersTogether ==
  ev.op \in (SuccessOps \ {"refresh"}) \cup {"loginWithTokens", "logout"} =>
    (refreshTimeoutRef.on <=> activityTimeoutRef.on)

\* C6: with a user logged in, sessionExpiry is the instant of the last
\* issuance or refresh plus the expiresIn the server sent with it.
C6_ExpiryFromServer ==
  (user # NULL /\ sessionExpiry # NoExpiry) =>
    (issued.server /\ sessionExpiry = issued.at + issued.expiresIn)

C8_ExactlyOneRefresh ==
  scn.active =>
    /\ scn.posts <= 1
    /\ (Now = scn.at + scn.E - RefreshMargin /\ dirty = Clean /\ ~(refreshTimeoutRef.on /\ refreshTimeoutRef.due <= Now))
         => scn.posts = 1

\* C9: every activity signal of a logged-in user, a user-interaction event
\* or a call of the context's updateActivity(), records the current instant
\* as lastActivity and leaves the inactivity logout pending 30 minutes from
\* now.
C9_ActivityReschedules ==
  (ev.op \in {"activity", "updateActivity"} /\ ev.had /\ user # NULL) =>
    /\ lastActivity = Now
    /\ activityTimeoutRef.on
    /\ activityTimeoutRef.due = Now + InactivityTimeout

\* C10: the inactivity logout of a logged-in user happens when 30 minutes
\* have passed since lastActivity: never earlier, and no user stays logged
\* in beyond that instant.
C10_InactivityLogout ==
  /\ (ev.op = "sessionTimeout" /\ ev.had) => lastActivity <= Now - InactivityTimeout
  /\ (user # NULL /\ dirty = Clean /\ ~(activityTimeoutRef.on /\ activityTimeoutRef.due <= Now))
       => lastActivity > Now - InactivityTimeout

\* ------------------------------------- properties of the request pipeline

C12_RateLimitedNotSent ==
  [][(api'.invoked = api.invoked + 1 /\ ~api'.rl.allowed)
     => /\ api'.raw.local
        /\ api'.raw.reason = MsgTooManyRequests
        /\ api'.raw.retryAfter = RetryAfter(api'.rl.n)
        /\ Includes(api'.thrown.msg, << ToString(api'.rl.n) >>)
        /\ api'.sent = api.sent
        /\ api'.pc # "wire"
        /\ ~api'.wired
        /\ api'.headers = {}
        /\ ~api'.metadata
        /\ api'.touched = 0]_vars

\* The second attempt of an apiPost by a logged-in user holding a CSRF token
\* was refused by the rate limiter after the first had been transmitted.
C12_Witness ==
  /\ api.kind = "api"
  /\ api.method = "post"
  /\ token # NULL
  /\ api.csrfToken
  /\ api.attempt = 2
  /\ api.invoked = 2
  /\ api.sent = 1
  /\ ~api.rl.allowed
  /\ api.raw = RateLimitError(MaxRetryAfter)
  /\ api.headers = {}

\* C13: the message of every failed exchange is that of the first rule that
\* matches, in the order 429, 401, 403, 404, 419, 500 and above, no response,
\* 422 with field errors, a server message, anything else; N is the
\* retry-after value that came with the 429.
C13_FirstMatchingRule ==
  api.thrown.id > 0 =>
    LET r == api.raw
        status == IF r.local THEN 429 ELSE IF r.hasResponse THEN r.status ELSE 0
        N == IF r.local THEN r.retryAfter ELSE r.sent
    IN api.thrown.msg =
         IF status = 429 THEN MsgRateLimit(N)
         ELSE IF status = 401 THEN MsgAuthRequired
         ELSE IF status = 403 THEN MsgAccessDenied
         ELSE IF status = 404 THEN MsgNotFound
         ELSE IF status = 419 THEN MsgCsrfExpired
         ELSE IF status >= 500 THEN MsgServerError
         ELSE IF ~r.hasResponse THEN MsgNetworkError
         ELSE IF status = 422 /\ r.errors.has THEN Join(r.errors.list)
         ELSE IF r.message # NoMsg THEN r.message
         ELSE MsgUnexpected

\* C14: a response of the server with status 429 and retryAfter = N is
\* rejected with "Rate limit exceeded. Try again in N seconds." and logs the
\* one event RATE_LIMIT_EXCEEDED.
C14_Server429 ==
  (api.thrown.id > 0 /\ api.raw.hasResponse /\ api.raw.status = 429) =>
    /\ api.thrown.msg = MsgRateLimit(api.raw.sent)
    /\ api.events = << "RATE_LIMIT_EXCEEDED" >>

\* C15: once a response with status 401 has been handled (and the navigation
\* it asked for has taken place), the client is logged out: no user, no
\* stored token or refresh token, no refresh or inactivity timer pending; the
\* page is the login page, and the request was rejected with
\* "Authentication required".
C15_GlobalLogout ==
  (api.thrown.id > 0 /\ api.raw.hasResponse /\ api.raw.status = 401 /\ ~api.nav) =>
    /\ user = NULL
    /\ token = NULL
    /\ rtoken = NULL
    /\ ~refreshTimeoutRef.on
    /\ ~activityTimeoutRef.on
    /\ api.navigated \/ api.path = "login"
    /\ api.thrown.msg = MsgAuthRequired

\* C16 as stated: every failed exchange logs exactly one security event.
C16_ExactlyOneEvent ==
  api.thrown.id > 0 => Len(api.events) = 1

\* C16, amended: a failed exchange logs exactly one security event when it
\* is a refusal of the rate limiter (RATE_LIMIT_EXCEEDED), a 401
\* (UNAUTHORIZED_ACCESS), a 403 (ACCESS_FORBIDDEN), a 419
\* (CSRF_TOKEN_MISMATCH), a response of 500 or above (SERVER_ERROR) or no
\* response (NETWORK_ERROR); it logs none for a 404, a 422 and every other
\* status; for a 429 of the server it logs RATE_LIMIT_EXCEEDED or nothing.
C16_EventPerNotableFailure ==
  api.thrown.id > 0 =>
    LET r == api.raw
    IN IF r.local THEN api.events = << "RATE_LIMIT_EXCEEDED" >>
       ELSE IF ~r.hasResponse THEN api.events = << "NETWORK_ERROR" >>
       ELSE IF r.status = 429 THEN api.events \in {<< "RATE_LIMIT_EXCEEDED" >>, <<>>}
       ELSE IF r.status = 401 THEN api.events = << "UNAUTHORIZED_ACCESS" >>
       ELSE IF r.status = 403 THEN api.events = << "ACCESS_FORBIDDEN" >>
       ELSE IF r.status = 419 THEN api.events = << "CSRF_TOKEN_MISMATCH" >>
       ELSE IF r.status >= 500 THEN api.events = << "SERVER_ERROR" >>
       ELSE api.events = <<>>

\* A 404 has been rejected with its message and without an event.
C16_Witness ==
  /\ api.thrown.id > 0
  /\ api.raw.hasResponse
  /\ api.raw.status = 404
  /\ api.thrown.msg = MsgNotFound
  /\ api.events = <<>>

\* C17: retryRequest invokes the operation at most maxRetries times; every
\* step of a call that is under way ends it or brings it nearer to its last
\* attempt, so the call ends after at most 2 * maxRetries steps; and when the
\* call returns a result, it is the result of the attempt that succeeded,
\* the k-th, after exactly k invocations.
C17_BoundedRetry ==
  [][api'.kind \in {"api", "retry"} =>
       /\ api'.invoked <= api'.maxRetries
       /\ api.pc \in {"wire", "backoff"} =>
            /\ 2 * api.attempt + (IF api.pc = "backoff" THEN 1 ELSE 0) <= 2 * api.maxRetries
            /\ \/ api'.pc = "done"
               \/ 2 * api'.attempt + (IF api'.pc = "backoff" THEN 1 ELSE 0)
                    > 2 * api.attempt + (IF api.pc = "backoff" THEN 1 ELSE 0)
       /\ (api'.pc = "done" /\ api'.result.ok) =>
            /\ api'.result.id = api'.attempt
            /\ api'.invoked = api'.result.id
            /\ api.pc = "wire" /\ api.attempt = api'.attempt]_vars

\* An apiGet failed twice, succeeded on the third attempt and returned.
C17_Witness ==
  /\ api.kind = "api"
  /\ api.maxRetries = DefaultMaxRetries
  /\ api.pc = "done"
  /\ api.result = [ok |-> TRUE, id |-> 3, msg |-> NoMsg]
  /\ api.invoked = 3
  /\ Len(api.slept) = 2

\* C18: a request sent through retryRequest and answered 401, 403 or 422
\* with field errors is invoked once: the error is surfaced at once, with no
\* retry and no delay.
C18_TerminalNotRetried ==
  (/\ api.kind \in {"api", "retry"}
   /\ api.thrown.id = 1
   /\ api.raw.hasResponse
   /\ \/ api.raw.status \in {401, 403}
      \/ api.raw.status = 422 /\ api.raw.errors.has /\ api.raw.errors.list # <<>>) =>
    /\ api.pc = "done"
    /\ api.result = [ok |-> FALSE, id |-> 1, msg |-> api.thrown.msg]
    /\ api.invoked = 1
    /\ api.slept = <<>>

\* C19: when the last of maxRetries attempts fails with an error that is
\* retried, retryRequest rejects with that attempt's error, and the delays
\* taken are those after the attempts before it, none after the last.
C19_LastErrorSurfaced ==
  (/\ api.kind \in {"api", "retry"}
   /\ api.pc = "done"
   /\ api.thrown.id > 0
   /\ api.thrown.id = api.maxRetries
   /\ ~IsTerminal(api.thrown.msg)) =>
    /\ api.result = [ok |-> FALSE, id |-> api.maxRetries, msg |-> api.thrown.msg]
    /\ api.invoked = api.maxRetries
    /\ Len(api.slept) = api.maxRetries - 1

\* A retryRequest with maxRetries = 2 was rate-limited on its first attempt,
\* found no network on its second, and rejected with the network error.
C19_Witness ==
  /\ api.kind = "retry"
  /\ api.maxRetries = 2
  /\ api.pc = "done"
  /\ api.sent = 1
  /\ api.result = [ok |-> FALSE, id |-> 2, msg |-> MsgNetworkError]
  /\ api.slept = << CustomDelay >>

\* C20: a state-changing request made through apiPost, apiPut, apiPatch or
\* apiDelete and answered 419 generates one new CSRF token, fails with
\* "Security token expired. Please try again." and is not sent again.
C20_CsrfNotResent ==
  (/\ api.kind = "api"
   /\ RequiresCSRFProtection(api.method)
   /\ api.thrown.id > 0
   /\ api.raw.hasResponse
   /\ api.raw.status = 419) =>
    /\ api.pc = "done"
    /\ api.result.msg = MsgCsrfExpired
    /\ api.regenerated = 1
    /\ api.sent = 1

\* C24: the k-th delay of a retryRequest, taken after failed attempt k and
\* before attempt k + 1, is k times the base delay, and a delay is taken
\* only after an attempt before the last.
C24_LinearBackoff ==
  api.kind \in {"api", "retry"} =>
    /\ Len(api.slept) < Max(api.maxRetries, 1)
    /\ \A k \in 1..Len(api.slept) : api.slept[k] = api.delay * k
    /\ api.pc = "backoff" => Len(api.slept) = api.attempt

\* An apiGet with the defaults has waited 1 s and then 2 s.
C24_Witness ==
  /\ api.kind = "api"
  /\ api.delay = BaseDelay
  /\ api.slept = << 1, 2 >>
  /\ api.attempt = 3

\* C21: when login, register or refreshToken reports failure after a
\* transient failure of its backend call (no response, or a status of 500 or
\* above), the call has been attempted as many times as the retry bound
\* allows; refreshToken has not logged the user out before that.
C21_TransientRetried ==
  (/\ api.kind \in {"login", "register", "refresh"}
   /\ api.pc = "done"
   /\ ~api.result.ok
   /\ api.thrown.id > 0
   /\ ~api.raw.local
   /\ ~api.raw.hasResponse \/ api.raw.status >= 500) =>
    api.sent = DefaultMaxRetries

\* C29: when useAuth.loginWithTokens returns a failure, the stored token and
\* refresh token are what they were before the call.
C29_FailureLeavesStorage ==
  [][(api.pc = "idle" /\ api'.kind = "loginWithTokens" /\ ~api'.result.ok)
     => UNCHANGED <<token, rtoken>>]_vars

\* ------------------------------------- properties of the session, continued

\* C22: isSessionExpiringSoon() is true exactly when sessionExpiry is set and
\* less than five minutes ahead; and once rendering has settled, it is not
\* true for an authenticated user with no refresh in progress, a refresh
\* having been started.
C22_ExpiringSoonRefreshes ==
  /\ IsSessionExpiringSoon(Cur) <=> (sessionExpiry # NoExpiry /\ sessionExpiry < Now + ExpiringSoonWindow)
  /\ (dirty = Clean /\ authHook /\ user # NULL /\ ~isRefreshing) => ~IsSessionExpiringSoon(Cur)

\* C26: refreshPromiseRef holds a promise exactly while a refresh request is
\* in flight, and isRefreshing is false when it holds none.
C26_HandleWhileInFlight ==
  /\ refreshPromiseRef # "none" <=> RefreshInFlight(Cur) > 0
  /\ refreshPromiseRef = "none" => ~isRefreshing

\* C27: while a user is set, an access token is stored and sessionExpiry is
\* set.
C27_AuthenticatedHasToken ==
  user # NULL => (token # NULL /\ sessionExpiry # NoExpiry)

\* C28: the inactivity timer is pending only while a user is logged in, and
\* its handler runs only for a logged-in user.
C28_InactivityOnlyWithSession ==
  /\ activityTimeoutRef.on => user # NULL
  /\ ev.op = "sessionTimeout" => ev.had

\* C25: at most one refresh timer and at most one inactivity timer is
\* pending, and a pending timer is the one its ref holds, the timer that was
\* scheduled last: no superseded timer is left to fire.
C25_OneTimerOfEachKind ==
  /\ Pending(Cur, "refresh") <= 1
  /\ Pending(Cur, "activity") <= 1
  /\ \A timer \in DOMAIN pending :
       \/ timer.kind = "refresh" /\ refreshTimeoutRef.on /\ timer = RefreshTimer(refreshTimeoutRef)
       \/ timer.kind = "activity" /\ activityTimeoutRef.on /\ timer = ActivityTimer(activityTimeoutRef)

\* Some minutes into a session an interaction event has put a new inactivity
\* timer in the place of the one armed at login.
C25_Witness ==
  /\ ev.op = "activity"
  /\ ev.had
  /\ user # NULL
  /\ refreshTimeoutRef.on
  /\ refreshTimeoutRef.due < MaxExpiresIn - RefreshMargin
  /\ activityTimeoutRef = [on |-> TRUE, due |-> InactivityTimeout]
  /\ Pending(Cur, "refresh") = 1
  /\ Pending(Cur, "activity") = 1

\* ------------------------------------------------ properties of the backend

\* C23: verifyUserToken calls next() only for a header that starts with
\* "Bearer " and whose token verifies, and answers 401 without calling next()
\* otherwise; createAnswer runs only with req.loggedInUser set, and a row is
\* inserted only for a request with such a header.
C23_OnlyVerifiedPass ==
  [][LET good == srv.header \in {Bearer \o Space \o <<"g">>, Bearer \o Space \o <<"g">> \o Space \o <<"b">>}
         verifying == srv.pc = "verifyUserToken" \/ (srv.pc = "answerRoutes" /\ srv.method = "POST")
     IN /\ (verifying /\ good) => (srv'.nexts = srv.nexts + 1 /\ srv'.status = 0 /\ srv'.loggedInUser.set)
        /\ (verifying /\ ~good) => (srv'.nexts = srv.nexts /\ srv'.status = 401 /\ srv'.pc = "responded")
        /\ srv'.pc = "createAnswer" => srv'.loggedInUser.set
        /\ srv'.answers > srv.answers => (good /\ srv.nexts = 2)]_vars

\* A POST with a verified token and a complete body has inserted an answer.
C23_Witness ==
  /\ srv.method = "POST"
  /\ srv.header = Bearer \o Space \o <<"g">>
  /\ srv.loggedInUser = [set |-> TRUE, id |-> 7]
  /\ srv.nexts = 2
  /\ srv.status = 201
  /\ srv.answers = 1

\* ------------------------------------------- properties of the route guards

\* C30: ProtectedRoute renders its children exactly when loading is false,
\* authentication is not required or a user is set, no role is required or
\* the user has one of the required roles, and no permission is required or
\* the user has one of the required permissions; ModeratorRoute renders them
\* only for an admin or moderator who has moderate_content.
C30_ChildrenOnlyWhenAllowed ==
  route.out # "none" =>
    LET p == route.props
        u == route.user
    IN /\ route.out = "children" <=>
            /\ ~route.loading
            /\ ~p.requireAuth \/ u.set
            /\ p.requiredRoles = <<>> \/ (u.set /\ \E i \in 1..Len(p.requiredRoles) : p.requiredRoles[i] = u.role)
            /\ p.requiredPermissions = <<>>
               \/ (u.set /\ \E i \in 1..Len(p.requiredPermissions) : p.requiredPermissions[i] \in u.permissions)
       /\ (route.wrapper = "ModeratorRoute" /\ route.out = "children") =>
            (u.set /\ u.role \in {"admin", "moderator"} /\ "moderate_content" \in u.permissions)

\* A moderator with moderate_content sees the content of a ModeratorRoute
\* that was given requireAuth = false and other roles by its caller.
C30_Witness ==
  /\ route.wrapper = "ModeratorRoute"
  /\ route.out = "children"
  /\ route.user.role = "moderator"
  /\ ~route.props.requireAuth
  /\ route.props.requiredRoles = <<"admin", "moderator">>

====
